---- MODULE Spec2Model ----
(***************************************************************************)
(* Model of the user handlers of 2Mean:                                    *)
(*   src/unnamed/part_000                                  user CRUD       *)
(*   src/modules/users/server/controllers/user-auth.controller.js  auth    *)
(* The user store is one Mongo collection; every handler is an action (or  *)
(* a chain of actions where the handler awaits between two store           *)
(* operations that other requests can interleave with).                    *)
(***************************************************************************)
EXTENDS Integers, Sequences, FiniteSets, Bags, TLC

\* ------------------------------------------------------------------ bounds
MaxUsers == 2      \* ids the store hands out: 1..MaxUsers
MaxTokens == 2     \* tokens generateUniqueToken hands out: 1..MaxTokens
MaxTime == 2       \* the clock runs 0..MaxTime
MaxPending == 2    \* register requests in flight at once

\* ------------------------------------------------- configuration and names
ADMIN_ROLE_NAME == "admin"
DEFAULT_ROLE_NAME == "user"
defaultUserRole == "user"
emailVerificationTTL == 1

Ids == 1..MaxUsers
NoId == 0
Tokens == 1..MaxTokens
NoToken == 0

Roles == {"admin", "user"}
Usernames == {"alice"}
Emails == {"a@x.io", "b@x.io"}
WeakPassword == "abc"
StrongPassword == "NewStrongP@ss1"
AdminPassword == "Adm1nP@ssw0rd"

\* ------------------------------------------------------------- JS values
\* A password value: absent, a cleartext string, or the hashing routine's output.
NoPassword == [kind |-> "undefined", v |-> ""]
Clear(p) == [kind |-> "clear", v |-> p]

\* A timestamp value: absent, a Date, or the ISO string JSON makes of a Date.
NoDate == [type |-> "undefined", t |-> 0]
DateVal(t) == [type |-> "Date", t |-> t]
IsoString(t) == [type |-> "string", t |-> t]

\* {token, expires} sub-document; present = FALSE is the missing sub-document.
NoTokenDoc == [present |-> FALSE, token |-> NoToken, expires |-> NoDate]
EmptyTokenDoc == [present |-> TRUE, token |-> NoToken, expires |-> NoDate]
TokenDoc(tok, exp) == [present |-> TRUE, token |-> tok, expires |-> DateVal(exp)]

\* The comparison of DateGreater with the operands exchanged.
DateLess(t, x) == x.type = "Date" /\ t < x.t

\* JS relational comparison now > x: a Date compares by its time value,
\* undefined converts to NaN and every comparison with NaN is false.
DateGreater(t, x) == x.type = "Date" /\ t > x.t

\* --------------------------------------------------------- collaborators
\* authHelpers.hashPassword: the stored form of a cleartext password.
hashPassword(pw) == [kind |-> "hash", v |-> pw.v]

\* authHelpers.verifyPassword(hash, password)
verifyPassword(hash, pw) == hash.kind = "hash" /\ pw.kind = "clear" /\ hash.v = pw.v

\* config.auth.passwordStrengthRe: upper, lower, digit, symbol, 8 characters
passwordStrengthRe == {StrongPassword, AdminPassword}

\* roleModule.determineSubroles(role)
determineSubroles(role) == IF role = ADMIN_ROLE_NAME THEN {"admin", "user"} ELSE {role}

\* ------------------------------------------------------------ the schema
\* Users.schema.obj: the fields mapUser and mapOverUser copy from a body.
schemaFields ==
  <<"username", "email", "password", "role", "subroles",
    "verified", "verification", "resetPassword">>

\* new Users(): a fresh document with the schema's defaults.
NewUsers ==
  [_id |-> NoId, username |-> "", email |-> "", password |-> NoPassword,
   role |-> DEFAULT_ROLE_NAME, subroles |-> {}, verified |-> FALSE,
   verification |-> NoTokenDoc, resetPassword |-> NoTokenDoc]

\* The slot of the store that holds no document.
Null ==
  [_id |-> NoId, username |-> "", email |-> "", password |-> NoPassword,
   role |-> "", subroles |-> {}, verified |-> FALSE,
   verification |-> NoTokenDoc, resetPassword |-> NoTokenDoc]

\* JS truthiness of a body field's value (line 431: if (body[realIndex])).
Truthy(field, value) ==
  CASE field \in {"username", "email", "role"} -> value # ""
    [] field = "password" -> value.kind # "undefined" /\ value.v # ""
    [] field = "subroles" -> TRUE
    [] field = "verified" -> value
    [] OTHER -> value.present

\* A request body: has = the fields the JSON body carries, with their values.
Body(has, username, email, password, role, subroles, id) ==
  [has |-> has, _id |-> id, username |-> username, email |-> email,
   password |-> password, role |-> role, subroles |-> subroles,
   verified |-> FALSE, verification |-> NoTokenDoc, resetPassword |-> NoTokenDoc]

\* ------------------------------------------------------------ pure helpers
RECURSIVE mapUserLoop(_, _, _)
mapUserLoop(user, body, index) ==
  IF index > Len(schemaFields) THEN user
  ELSE LET realIndex == schemaFields[index]
       IN mapUserLoop(
            IF realIndex \in body.has /\ Truthy(realIndex, body[realIndex])
              THEN [user EXCEPT ![realIndex] = body[realIndex]]
              ELSE user,
            body, index + 1)

\* mapUser(body): a new document with the truthy schema fields of the body.
mapUser(body) == mapUserLoop(NewUsers, body, 1)

RECURSIVE mapOverUserLoop(_, _, _)
mapOverUserLoop(updates, user, index) ==
  IF index > Len(schemaFields) THEN user
  ELSE LET realIndex == schemaFields[index]
       IN mapOverUserLoop(
            updates,
            IF realIndex \in updates.has
              THEN [user EXCEPT ![realIndex] = updates[realIndex]]
              ELSE user,
            index + 1)

\* mapOverUser(updates, user): every schema field the body defines overwrites.
mapOverUser(updates, user) == mapOverUserLoop(updates, user, 1)

\* JSON.parse(JSON.stringify(x)) of a {token, expires} sub-document.
JsonTokenDoc(d) ==
  IF d.expires.type = "Date" THEN [d EXCEPT !.expires = IsoString(d.expires.t)] ELSE d

\* JSON.parse(JSON.stringify(user)): a deep copy, Dates become ISO strings.
JsonCopy(user) ==
  [user EXCEPT !.verification = JsonTokenDoc(user.verification),
               !.resetPassword = JsonTokenDoc(user.resetPassword)]

\* The assignments sanitizeUser makes to the object `sanitized` refers to.
Strip(sanitized) ==
  [sanitized EXCEPT
     !.password = NoPassword,
     !.verification = IF sanitized.verification.present
                        THEN [sanitized.verification EXCEPT !.token = NoToken]
                        ELSE sanitized.verification,
     !.resetPassword = IF sanitized.resetPassword.present
                         THEN [sanitized.resetPassword EXCEPT !.token = NoToken]
                         ELSE sanitized.resetPassword]

\* sanitizeUser without the lines that remove the reset token.
sanitizeUserKeepsReset(user) ==
  [arg |-> user,
   ret |-> [Strip(JsonCopy(user)) EXCEPT !.resetPassword = JsonCopy(user).resetPassword]]

\* sanitizeUser(user): arg = the caller's object after the call, ret = the result.
sanitizeUser(user) == [arg |-> user, ret |-> Strip(JsonCopy(user))]

\* isSelf with the comparison inverted.
isSelfInverted(user, id) == user._id # id

\* isSelf (part_000 382-387)
isSelf(user, id) == user._id = id

\* isAuthorized testing the role instead of the subroles.
isAuthorizedByRole(user, action) == user.role = ADMIN_ROLE_NAME

\* isAuthorized (part_000 394-400): the action is not looked at.
isAuthorized(user, action) == ADMIN_ROLE_NAME \in user.subroles

isStrongPassword(password) == password.kind = "clear" /\ password.v \in passwordStrengthRe

\* ------------------------------------------------------------------ state
VARIABLES
  users,      \* the collection: id -> document, Null where there is none
  nextId,     \* the next _id the driver generates
  nextToken,  \* the next value of generateUniqueToken
  now,        \* Date.now()
  inflight,   \* bag of register requests suspended at an await
  config,     \* config.app flags of this deployment
  spent,      \* history: the tokens a verifyEmail or resetPassword answered 204 for
  res         \* the last step: the request, the response sent, the mail handed over

vars == <<users, nextId, nextToken, now, inflight, config, spent, res>>

NoMail == [to |-> "", subject |-> "", token |-> NoToken]
NoBody == Body({}, "", "", NoPassword, "", {}, NoId)

\* A step's record: op and the request (caller = req.user._id, target = the id
\* it names, body, token), the status and body sent (msg, docs; status 0 = no
\* response in this step) and the message handed to shared.mail.sendMail.
Resp(op, status, msg, caller, target, docs) ==
  [op |-> op, status |-> status, msg |-> msg, caller |-> caller,
   target |-> target, docs |-> docs, body |-> NoBody, token |-> NoToken,
   mail |-> NoMail]

NoRes == Resp("", 0, "", NoId, NoId, <<>>)

AdminUser ==
  [_id |-> 1, username |-> "admin", email |-> "admin@x.io",
   password |-> hashPassword(Clear(AdminPassword)),
   role |-> ADMIN_ROLE_NAME, subroles |-> determineSubroles(ADMIN_ROLE_NAME),
   verified |-> TRUE, verification |-> NoTokenDoc, resetPassword |-> NoTokenDoc]

Init ==
  /\ users = [i \in Ids |-> IF i = 1 THEN AdminUser ELSE Null]
  /\ nextId = 2
  /\ nextToken = 1
  /\ now = 0
  /\ inflight = EmptyBag
  /\ config \in [allowRegistration : BOOLEAN, requireEmailVerification : BOOLEAN]
  /\ spent = {}
  /\ res = NoRes

\* ------------------------------------------------------------ store access
Live == {i \in Ids : users[i]._id # NoId}

\* Users.findOne({ _id: id })
FindOneById(id) == IF id \in Live THEN users[id] ELSE Null

\* The unique indexes an insert or save of doc would violate.
DuplicateIndexes(doc) ==
  {ix \in {"username_1", "email_1"} :
     \E i \in Live : /\ i # doc._id
                     /\ IF ix = "username_1" THEN users[i].username = doc.username
                                             ELSE users[i].email = doc.email}

\* Mongoose validation (error.errors): the required paths.
ValidationFails(doc) == doc.username = "" \/ doc.password.kind = "undefined"

\* ------------------------------------------------------------ request inputs
SubroleSets == {{}, {"user"}, {"admin", "user"}}

\* pageLimit of the list handler.
pageLimit == 25

\* Usernames in the order .sort('username') gives them.
UsernameOrder == <<"admin", "alice">>
Searches == {"", "a", "li"}

\* new RegExp('[a-z]*' + search + '+?', 'i').test(username), for these names.
Matches(username, search) ==
  \/ search = ""
  \/ search = "a" /\ username \in {"admin", "alice"}
  \/ search = "li" /\ username = "alice"

\* Bodies of POST users: username, email and password, optionally role or subroles.
CreateBodies ==
  {Body(has, IF "username" \in has THEN u ELSE "", IF "email" \in has THEN e ELSE "",
        IF "password" \in has THEN Clear(WeakPassword) ELSE NoPassword,
        IF "role" \in has THEN ADMIN_ROLE_NAME ELSE "",
        IF "subroles" \in has THEN {"admin", "user"} ELSE {}, NoId) :
     has \in {{"username", "email", "password"}, {"username", "email"},
              {"username", "password"},
              {"username", "email", "password", "role"},
              {"username", "email", "password", "subroles"}},
     u \in Usernames, e \in Emails}

\* Bodies of update and adminUpdate: the target _id and the field to change.
UpdateBodies ==
  {Body(has, "", "", IF "password" \in has THEN Clear(WeakPassword) ELSE NoPassword,
        IF "role" \in has THEN r ELSE "",
        IF "subroles" \in has THEN {"admin", "user"} ELSE {}, id) :
     has \in {{}, {"password"}, {"role"}, {"subroles"}}, r \in Roles,
     id \in Ids \cup {NoId}}

\* ---------------------------------------------------------------- CRUD
\* read (part_000 45-80). p is the authenticated principal, id the :userId parameter.
read(p, id) ==
  LET user == users[p]
      foundUser == FindOneById(id)
  IN /\ res' =
          IF id = NoId THEN Resp("read", 400, "Malformed request", p, id, <<>>)
          ELSE IF isSelf(user, id) \/ isAuthorized(user, "read")
            THEN IF foundUser # Null
                   THEN Resp("read", 200, "", p, id, <<sanitizeUser(user).ret>>)
                   ELSE Resp("read", 404, "", p, id, <<>>)
            ELSE Resp("read", 403, "", p, id, <<>>)
     /\ UNCHANGED <<users, nextId, nextToken, now, inflight, config, spent>>

RECURSIVE FindSorted(_, _)
\* Users.find(query).sort('username'): the matching documents from position i on.
FindSorted(search, i) ==
  IF i > Len(UsernameOrder) THEN <<>>
  ELSE LET hit == {j \in Live : users[j].username = UsernameOrder[i]
                                 /\ Matches(users[j].username, search)}
       IN (IF hit = {} THEN <<>> ELSE <<users[CHOOSE j \in hit : TRUE]>>)
          \o FindSorted(search, i + 1)

\* list (part_000 92-123)
list(page, search) ==
  LET skip == (page - 1) * pageLimit
      sorted == FindSorted(search, 1)
      last == IF skip + pageLimit < Len(sorted) THEN skip + pageLimit ELSE Len(sorted)
      foundUsers == SubSeq(sorted, skip + 1, last)
      sanitized == [i \in 1..Len(foundUsers) |-> sanitizeUser(foundUsers[i]).ret]
  IN /\ res' = Resp("list", 200, search, NoId, NoId, sanitized)
     /\ UNCHANGED <<users, nextId, nextToken, now, inflight, config, spent>>

\* create (part_000 134-161)
create(p, body) ==
  LET user == users[p]
      newUser == [mapUser(body) EXCEPT !._id = nextId]
      saved == /\ isAuthorized(user, "create")
               /\ newUser.email # ""
               /\ ~ValidationFails(newUser)
               /\ DuplicateIndexes(newUser) = {}
  IN /\ saved => nextId <= MaxUsers
     /\ IF saved
          THEN /\ users' = [users EXCEPT ![nextId] = newUser]
               /\ nextId' = nextId + 1
               /\ res' = Resp("create", 201, "", p, nextId, <<sanitizeUser(newUser).ret>>)
          ELSE /\ UNCHANGED <<users, nextId>>
               /\ res' =
                    IF ~isAuthorized(user, "create")
                      THEN Resp("create", 403, "", p, NoId, <<>>)
                    ELSE IF newUser.email = ""
                      THEN Resp("create", 500, "", p, NoId, <<>>)
                    ELSE IF ValidationFails(newUser)
                      THEN Resp("create", 400, "errors", p, NoId, <<>>)
                    ELSE Resp("create", 500, "", p, NoId, <<>>)
     /\ UNCHANGED <<nextToken, now, inflight, config, spent>>

\* update (part_000 172-212): no check of the principal.
update(updates) ==
  LET foundUser == FindOneById(updates._id)
      mapped == mapOverUser(updates, foundUser)
      saved == /\ updates._id # NoId
               /\ foundUser # Null
               /\ ~ValidationFails(mapped)
               /\ DuplicateIndexes(mapped) = {}
  IN /\ IF saved
          THEN /\ users' = [users EXCEPT ![updates._id] = mapped]
               /\ res' = Resp("update", 200, "", NoId, updates._id, <<sanitizeUser(mapped).ret>>)
          ELSE /\ UNCHANGED users
               /\ res' =
                    IF updates._id = NoId
                      THEN Resp("update", 400, "Missing user._id", NoId, NoId, <<>>)
                    ELSE IF foundUser = Null
                      THEN Resp("update", 404, "", NoId, updates._id, <<>>)
                    ELSE IF ValidationFails(mapped)
                      THEN Resp("update", 400, "errors", NoId, updates._id, <<>>)
                    ELSE Resp("update", 500, "", NoId, updates._id, <<>>)
     /\ UNCHANGED <<nextId, nextToken, now, inflight, config, spent>>

RECURSIVE FindIn(_, _)
\* Users.find({ _id: { $in: userList } }), in id order from i on.
FindIn(userList, i) ==
  IF i > MaxUsers THEN <<>>
  ELSE (IF i \in userList /\ i \in Live THEN <<users[i]>> ELSE <<>>) \o FindIn(userList, i + 1)

\* readList (part_000 224-240): no check of the principal.
readList(userList) ==
  LET foundUsers == FindIn(userList, 1)
  IN /\ res' = Resp("readList", 200, "", NoId, NoId,
                    [i \in 1..Len(foundUsers) |-> sanitizeUser(foundUsers[i]).ret])
     /\ UNCHANGED <<users, nextId, nextToken, now, inflight, config, spent>>

\* deleteUser (part_000 251-270)
deleteUser(p, userId) ==
  /\ IF isAuthorized(users[p], "delete")
       THEN /\ users' = [users EXCEPT ![userId] = Null]
            /\ res' = Resp("deleteUser", 204, "", p, userId, <<>>)
       ELSE /\ UNCHANGED users
            /\ res' = Resp("deleteUser", 403, "", p, userId, <<>>)
  /\ UNCHANGED <<nextId, nextToken, now, inflight, config, spent>>

\* adminUpdate (part_000 278-309)
adminUpdate(p, body) ==
  LET withRole == IF "role" \in body.has /\ Truthy("role", body.role)
                    THEN [body EXCEPT !.has = @ \cup {"subroles"},
                                      !.subroles = determineSubroles(body.role)]
                    ELSE body
      user == IF "password" \in withRole.has /\ Truthy("password", withRole.password)
                THEN [withRole EXCEPT !.password = hashPassword(withRole.password)]
                ELSE withRole
  IN /\ IF users[p].role # ADMIN_ROLE_NAME
          THEN /\ UNCHANGED users
               /\ res' = Resp("adminUpdate", 403, "", p, body._id, <<>>)
          ELSE /\ users' = IF body._id \in Live
                             THEN [users EXCEPT ![body._id] = mapOverUser(user, users[body._id])]
                             ELSE users
               /\ res' = Resp("adminUpdate", 204, "", p, body._id, <<>>)
     /\ UNCHANGED <<nextId, nextToken, now, inflight, config, spent>>

\* flushSubroles with an update whose query matches every user.
flushSubrolesEveryUser(parentRole, subroles) ==
  /\ users' = [i \in Ids |-> IF i \in Live
                               THEN [users[i] EXCEPT !.subroles = subroles]
                               ELSE users[i]]
  /\ res' = [Resp("flushSubroles", 0, parentRole, NoId, NoId, <<>>)
               EXCEPT !.body.subroles = subroles]
  /\ UNCHANGED <<nextId, nextToken, now, inflight, config, spent>>

\* flushSubroles (part_000 314-324): the bulk update it issues, applied. The
\* step records the arguments: parentRole as msg, subroles in body.
flushSubroles(parentRole, subroles) ==
  /\ users' = [i \in Ids |-> IF i \in Live /\ users[i].role = parentRole
                               THEN [users[i] EXCEPT !.subroles = subroles]
                               ELSE users[i]]
  /\ res' = [Resp("flushSubroles", 0, parentRole, NoId, NoId, <<>>)
               EXCEPT !.body.subroles = subroles]
  /\ UNCHANGED <<nextId, nextToken, now, inflight, config, spent>>

\* removeSubroles (part_000 326-341): one $pull per label, all applied.
removeSubroles(subroles) ==
  /\ users' = [i \in Ids |-> IF i \in Live
                               THEN [users[i] EXCEPT !.subroles = @ \ subroles]
                               ELSE users[i]]
  /\ res' = Resp("removeSubroles", 0, "", NoId, NoId, <<>>)
  /\ UNCHANGED <<nextId, nextToken, now, inflight, config, spent>>

\* updateUserRoles (part_000 350-355)
updateUserRoles(userId, targetRole, subroles) ==
  /\ users' = IF userId \in Live
                THEN [users EXCEPT ![userId] = [@ EXCEPT !.role = targetRole,
                                                         !.subroles = subroles]]
                ELSE users
  /\ res' = Resp("updateUserRoles", 0, targetRole, NoId, userId, <<>>)
  /\ UNCHANGED <<nextId, nextToken, now, inflight, config, spent>>

\* readSelf (part_000 360-364)
readSelf(p) ==
  /\ res' = Resp("readSelf", 200, "", p, p, <<sanitizeUser(users[p]).ret>>)
  /\ UNCHANGED <<users, nextId, nextToken, now, inflight, config, spent>>

NextCrud ==
  \/ \E p \in Live, id \in Ids \cup {NoId} : read(p, id)
  \/ \E page \in 1..2, search \in Searches : list(page, search)
  \/ \E p \in Live, body \in CreateBodies : create(p, body)
  \/ \E updates \in UpdateBodies : update(updates)
  \/ \E userList \in SUBSET Ids : readList(userList)
  \/ \E p \in Live, userId \in Ids : deleteUser(p, userId)
  \/ \E p \in Live, body \in UpdateBodies : adminUpdate(p, body)
  \/ \E parentRole \in Roles, subroles \in SubroleSets : flushSubroles(parentRole, subroles)
  \/ \E subroles \in {{"admin"}} : removeSubroles(subroles)
  \/ \E userId \in Ids, targetRole \in Roles, subroles \in SubroleSets :
       updateUserRoles(userId, targetRole, subroles)
  \/ \E p \in Live : readSelf(p)

\* The CRUD handlers alone, registration and verification switched on.
InitCrud == Init /\ config.allowRegistration /\ config.requireEmailVerification

SpecCrud == InitCrud /\ [][NextCrud]_vars

\* ---------------------------------------------------------------- auth
\* Bodies of POST register.
RegisterBodies ==
  {Body(has, IF "username" \in has THEN u ELSE "", IF "email" \in has THEN e ELSE "",
        IF "password" \in has THEN Clear(pw) ELSE NoPassword, "", {}, NoId) :
     has \in {{"username", "email", "password"}, {"username", "password"}},
     u \in Usernames, e \in Emails, pw \in {WeakPassword, StrongPassword}}

\* A register request suspended at an await: pc names the await, user is newUser.
Suspended(pc, body, user) == [pc |-> pc, body |-> body, user |-> user]

Pending(pc) == {r \in BagToSet(inflight) : r.pc = pc}

\* register (user-auth.controller.js 57-80), up to the await of hashPassword.
\* A body without email makes generateProfileImageURL throw before any response.
register(body) ==
  LET newUser == [mapUser(body) EXCEPT !.role = defaultUserRole]
      accepted == /\ newUser.email # ""
                  /\ config.allowRegistration
                  /\ isStrongPassword(newUser.password)
  IN /\ accepted => BagCardinality(inflight) < MaxPending
     /\ inflight' = IF accepted
                      THEN inflight (+) SetToBag({Suspended("hash", body, newUser)})
                      ELSE inflight
     /\ res' =
          [(IF newUser.email = ""
              THEN Resp("register", 0, "TypeError", NoId, NoId, <<>>)
            ELSE IF ~config.allowRegistration
              THEN Resp("register", 500, "", NoId, NoId, <<>>)
            ELSE IF ~isStrongPassword(newUser.password)
              THEN Resp("register", 400, "Invalid password", NoId, NoId, <<>>)
            ELSE Resp("register", 0, "await", NoId, NoId, <<>>))
           EXCEPT !.body = body]
     /\ UNCHANGED <<users, nextId, nextToken, now, config, spent>>

\* sendEmailVerificationEmail (419-434): the message handed to the mailer.
sendEmailVerificationEmail(user) ==
  [to |-> user.email, subject |-> "Verification Email", token |-> user.verification.token]

\* sendPasswordChangeEmail (441-456)
sendPasswordChangeEmail(user) ==
  [to |-> user.email, subject |-> "Change Password", token |-> user.verification.token]

\* register (80-134): the hash arrives, the token is issued, save() runs, and the
\* verification mail is sent or fails (sent). A duplicate-key error names one of
\* the violated unique indexes (index). The mail step reads newUser alone, so it
\* is taken together with the save. The token of a rejected save is dropped with
\* newUser and never seen again, so the counter moves only when the save succeeds.
registerSave(r, index, sent) ==
  LET newUser == [r.user EXCEPT !._id = nextId,
                                !.password = hashPassword(r.user.password),
                                !.verification = TokenDoc(nextToken, now + emailVerificationTTL)]
      duplicate == DuplicateIndexes(newUser)
      saved == ~ValidationFails(newUser) /\ duplicate = {}
  IN /\ r \in Pending("hash")
     /\ saved => nextToken <= MaxTokens /\ nextId <= MaxUsers
     /\ index \in (IF duplicate = {} THEN {""} ELSE duplicate)
     /\ sent \/ (saved /\ config.requireEmailVerification)
     /\ inflight' = inflight (-) SetToBag({r})
     /\ IF saved
          THEN /\ users' = [users EXCEPT ![nextId] = newUser]
               /\ nextId' = nextId + 1
               /\ nextToken' = nextToken + 1
               /\ res' =
                    [Resp("register", 201,
                          IF sent THEN "" ELSE "Verification email not sent",
                          NoId, nextId, <<newUser>>)
                     EXCEPT !.body = r.body,
                            !.mail = IF sent /\ config.requireEmailVerification
                                       THEN sendEmailVerificationEmail(newUser)
                                       ELSE NoMail]
          ELSE /\ UNCHANGED <<users, nextId, nextToken>>
               /\ res' =
                    [(IF ValidationFails(newUser)
                        THEN Resp("register", 500, "", NoId, NoId, <<>>)
                      ELSE IF index = "username_1"
                        THEN Resp("register", 400, "Username is taken", NoId, NoId, <<>>)
                      ELSE Resp("register", 500, "", NoId, NoId, <<>>))
                     EXCEPT !.body = r.body]
     /\ UNCHANGED <<now, config, spent>>

\* register (80): the awaited hashPassword rejects. The await stands outside any
\* try, so the async handler's promise rejects and no response is sent.
registerHashRejected(r) ==
  /\ r \in Pending("hash")
  /\ inflight' = inflight (-) SetToBag({r})
  /\ res' = [Resp("register", 0, "hashPassword rejected", NoId, NoId, <<>>)
               EXCEPT !.body = r.body]
  /\ UNCHANGED <<users, nextId, nextToken, now, config, spent>>

\* changePassword (147-204)
changePassword(p, oldPassword, newPassword) ==
  LET user == users[p]
      match == verifyPassword(user.password, oldPassword)
      savedUser == [user EXCEPT !.password = hashPassword(newPassword)]
  IN /\ IF match /\ isStrongPassword(newPassword)
          THEN /\ users' = [users EXCEPT ![p] = savedUser]
               /\ res' = [Resp("changePassword", 200, "", p, p, <<savedUser>>)
                            EXCEPT !.body.password = newPassword]
          ELSE /\ UNCHANGED users
               /\ res' = [(IF match
                              THEN Resp("changePassword", 400, "Invalid password", p, p, <<>>)
                              ELSE Resp("changePassword", 400, "Incorrect Username/Password",
                                        p, p, <<>>))
                            EXCEPT !.body.password = newPassword]
     /\ UNCHANGED <<nextId, nextToken, now, inflight, config, spent>>

\* Users.findOne({ 'verification.token': token })
FindByVerificationToken(token) ==
  LET hit == {i \in Live : users[i].verification.present
                            /\ users[i].verification.token = token}
  IN IF hit = {} THEN Null ELSE users[CHOOSE i \in hit : \A j \in hit : i <= j]

\* Users.find({ 'resetPassword.token': token }): the ids of the matches.
FindByResetToken(token) ==
  {i \in Live : users[i].resetPassword.present /\ users[i].resetPassword.token = token}

\* Users.find({ email: email }): the ids of the matches.
FindByEmail(email) == {i \in Live : users[i].email = email}

\* verifyEmail (213-240). token is req.query.token.
verifyEmail(token) ==
  LET user == FindByVerificationToken(token)
      expired == DateGreater(now, user.verification.expires)
  IN /\ IF user # Null /\ ~expired
          THEN /\ users' = [users EXCEPT ![user._id] =
                              [user EXCEPT !.verification.expires = NoDate,
                                           !.verified = TRUE]]
               /\ spent' = spent \cup {token}
               /\ res' = [Resp("verifyEmail", 204, "", NoId, user._id, <<>>)
                            EXCEPT !.token = token]
          ELSE /\ UNCHANGED <<users, spent>>
               /\ res' = [(IF user = Null
                              THEN Resp("verifyEmail", 400, "Token invalid", NoId, NoId, <<>>)
                              ELSE Resp("verifyEmail", 400, "Token has expired", NoId,
                                        user._id, <<>>))
                            EXCEPT !.token = token]
     /\ UNCHANGED <<nextId, nextToken, now, inflight, config>>

\* requestVerifcationEmail (245-259)
requestVerifcationEmail(p, sent) ==
  LET savedUser == [users[p] EXCEPT
                      !.verification = [present |-> TRUE, token |-> nextToken,
                                        expires |-> DateVal(now + emailVerificationTTL)]]
  IN /\ nextToken <= MaxTokens
     /\ nextToken' = nextToken + 1
     /\ users' = [users EXCEPT ![p] = savedUser]
     /\ res' = [Resp("requestVerificationEmail", IF sent THEN 204 ELSE 500, "", p, p, <<>>)
                  EXCEPT !.mail = IF sent THEN sendEmailVerificationEmail(savedUser)
                                          ELSE NoMail]
     /\ UNCHANGED <<nextId, now, inflight, config, spent>>

\* requestChangePasswordEmail (264-301). email is req.query.email, "" when missing.
requestChangePasswordEmail(email, sent) ==
  LET found == FindByEmail(email)
      user == users[CHOOSE i \in found : TRUE]
      savedUser == [user EXCEPT
                      !.resetPassword = TokenDoc(nextToken, now + emailVerificationTTL)]
  IN /\ IF email # "" /\ Cardinality(found) = 1
          THEN /\ nextToken <= MaxTokens
               /\ nextToken' = nextToken + 1
               /\ users' = [users EXCEPT ![user._id] = savedUser]
               /\ res' = [Resp("requestChangePasswordEmail", IF sent THEN 204 ELSE 500,
                               email, NoId, user._id, <<>>)
                            EXCEPT !.mail = IF sent THEN sendPasswordChangeEmail(savedUser)
                                                    ELSE NoMail]
          ELSE /\ UNCHANGED <<users, nextToken>>
               /\ res' = Resp("requestChangePasswordEmail", 400,
                              IF email = "" THEN "Missing email" ELSE "Email not found",
                              NoId, NoId, <<>>)
     /\ UNCHANGED <<nextId, now, inflight, config, spent>>

\* The assignments of resetPassword without the one to verified.
resetPasswordAssignUnverified(user, hashed) ==
  [user EXCEPT !.password = hashed, !.resetPassword = EmptyTokenDoc]

\* resetPassword (331-334): the assignments to the found user once the hash arrived.
resetPasswordAssign(user, hashed) ==
  [user EXCEPT !.password = hashed, !.resetPassword = EmptyTokenDoc, !.verified = TRUE]

\* resetPassword (306-355). password and token are the body's, absent as
\* NoPassword and NoToken.
resetPassword(password, token) ==
  LET found == FindByResetToken(token)
      user == users[CHOOSE i \in found : TRUE]
      queried == /\ Truthy("password", password)
                 /\ token # NoToken
                 /\ isStrongPassword(password)
      expired == DateGreater(now, user.resetPassword.expires)
  IN /\ IF queried /\ Cardinality(found) = 1 /\ ~expired
          THEN /\ users' = [users EXCEPT ![user._id] =
                              resetPasswordAssign(user, hashPassword(password))]
               /\ spent' = spent \cup {token}
               /\ res' = [Resp("resetPassword", 204, "", NoId, user._id, <<>>)
                            EXCEPT !.body.password = password, !.token = token]
          ELSE /\ UNCHANGED <<users, spent>>
               /\ res' = [Resp("resetPassword", 400,
                               IF ~Truthy("password", password) THEN "Missing password"
                               ELSE IF token = NoToken THEN "Missing token"
                               ELSE IF ~isStrongPassword(password) THEN "Password invalid"
                               ELSE IF Cardinality(found) # 1 THEN "Token invalid"
                               ELSE "Token has expired",
                               NoId, NoId, <<>>)
                            EXCEPT !.body.password = password, !.token = token]
     /\ UNCHANGED <<nextId, nextToken, now, inflight, config>>

\* Time passes.
Tick ==
  /\ now < MaxTime
  /\ now' = now + 1
  /\ res' = NoRes
  /\ UNCHANGED <<users, nextId, nextToken, inflight, config, spent>>

NextAuth ==
  \/ \E body \in RegisterBodies : register(body)
  \/ \E r \in BagToSet(inflight), index \in {"", "username_1", "email_1"},
        sent \in BOOLEAN : registerSave(r, index, sent)
  \/ \E r \in BagToSet(inflight) : registerHashRejected(r)
  \/ \E p \in Live, oldPassword \in {Clear(AdminPassword), Clear(StrongPassword)},
        newPassword \in {Clear(WeakPassword), Clear(StrongPassword)} :
       changePassword(p, oldPassword, newPassword)
  \/ \E token \in Tokens : verifyEmail(token)
  \/ \E p \in Live, sent \in BOOLEAN : requestVerifcationEmail(p, sent)
  \/ \E email \in Emails \cup {""}, sent \in BOOLEAN : requestChangePasswordEmail(email, sent)
  \/ \E password \in {NoPassword, Clear(WeakPassword), Clear(StrongPassword)},
        token \in Tokens \cup {NoToken} : resetPassword(password, token)
  \/ Tick

\* The auth handlers alone.
SpecAuth == Init /\ [][NextAuth]_vars

\* The handlers that issue and redeem tokens, with create to add users.
NextTokens ==
  \/ \E p \in Live, body \in {b \in CreateBodies : b.has = {"username", "email", "password"}} :
       create(p, body)
  \/ \E token \in Tokens : verifyEmail(token)
  \/ \E p \in Live, sent \in BOOLEAN : requestVerifcationEmail(p, sent)
  \/ \E email \in Emails \cup {""}, sent \in BOOLEAN : requestChangePasswordEmail(email, sent)
  \/ \E password \in {NoPassword, Clear(WeakPassword), Clear(StrongPassword)},
        token \in Tokens \cup {NoToken} : resetPassword(password, token)
  \/ Tick

SpecTokens == InitCrud /\ [][NextTokens]_vars

Next == NextCrud \/ NextAuth

Spec == Init /\ [][Next]_vars

\* ------------------------------------------------------- sanitizeUser alone
\* {token, expires} sub-documents a user document can carry.
TokenDocs ==
  {NoTokenDoc, EmptyTokenDoc}
    \cup {TokenDoc(tok, exp) : tok \in Tokens, exp \in 0..MaxTime}
    \cup {[present |-> TRUE, token |-> tok, expires |-> NoDate] : tok \in Tokens}

\* User documents handed to sanitizeUser.
SanitizeInputs ==
  {[AdminUser EXCEPT !.password = pw, !.verified = vd, !.verification = vn,
                     !.resetPassword = rp] :
     pw \in {NoPassword, Clear(WeakPassword), hashPassword(Clear(StrongPassword))},
     vd \in BOOLEAN, vn \in TokenDocs, rp \in TokenDocs}

InitSanitize ==
  /\ users \in {[i \in Ids |-> IF i = 1 THEN U ELSE Null] : U \in SanitizeInputs}
  /\ nextId = 2
  /\ nextToken = 1
  /\ now = 0
  /\ inflight = EmptyBag
  /\ config = [allowRegistration |-> TRUE, requireEmailVerification |-> TRUE]
  /\ spent = {}
  /\ res = NoRes

\* A call sanitizeUser(users[i]): the result is sent, the argument object is
\* left as the call leaves it.
sanitize(i) ==
  /\ i \in Live
  /\ users' = [users EXCEPT ![i] = sanitizeUser(users[i]).arg]
  /\ res' = Resp("sanitizeUser", 200, "", NoId, i, <<sanitizeUser(users[i]).ret>>)
  /\ UNCHANGED <<nextId, nextToken, now, inflight, config, spent>>

NextSanitize == \E i \in Ids : sanitize(i)

SpecSanitize == InitSanitize /\ [][NextSanitize]_vars

\* ================================================================ claims
NoSecrets(doc) ==
  /\ doc.password = NoPassword
  /\ doc.verification.token = NoToken
  /\ doc.resetPassword.token = NoToken

\* The step that ends is the register request's save (it leaves the bag).
IsRegisterSave == res'.op = "register" /\ BagCardinality(inflight') < BagCardinality(inflight)

\* The step that ends is the synchronous start of a register request.
IsRegisterStart == res'.op = "register" /\ ~IsRegisterSave

\* C1: in every reachable store state each persisted user's password field holds
\* the output of the hashing routine, never a cleartext password of a request body.
C1_PasswordsStoredHashed == \A i \in Live : users[i].password.kind = "hash"

\* C2: no response body sent by a handler contains a user's password hash,
\* verification token or reset token.
C2_NoSecretInResponse ==
  res.status # 0 => \A k \in 1..Len(res.docs) : NoSecrets(res.docs[k])

\* C3: once verifyEmail or resetPassword has answered 204 for a token, every later
\* verifyEmail or resetPassword request presenting that token is answered 400.
C3_TokensSingleUse ==
  [][(res'.op \in {"verifyEmail", "resetPassword"} /\ res'.token \in spent)
       => res'.status = 400]_vars

\* C4: any two persisted users with the same role have the same subroles.
C4_SubrolesFunctionOfRole ==
  \A i, j \in Live : users[i].role = users[j].role => users[i].subroles = users[j].subroles

\* C5: a principal whose subroles lack the admin label is refused with 403 when it
\* calls read with an id other than its own, create, or deleteUser, and the store
\* is unchanged by the refused request.
C5_NonAdminRefused ==
  [][(/\ res'.op \in {"read", "create", "deleteUser"}
      /\ ADMIN_ROLE_NAME \notin users[res'.caller].subroles
      /\ res'.op = "read" => (res'.target # NoId /\ res'.target # res'.caller))
       => (res'.status = 403 /\ users' = users)]_vars

\* C5 witness: a principal without the admin label asked for another, existing
\* user's record and was refused.
C5_Witness ==
  /\ res.op = "read" /\ res.status = 403
  /\ res.target \in Live /\ res.target # res.caller
  /\ ADMIN_ROLE_NAME \notin users[res.caller].subroles

C7_ReadReturnsTarget ==
  (res.op = "read" /\ res.status = 200)
    => res.docs = <<sanitizeUser(users[res.target]).ret>>

\* C8: sanitizeUser(U) has no password, no verification.token and no
\* resetPassword.token value, whatever U carried, and U is not modified.
C8_SanitizeStripsSecrets ==
  [][res'.op = "sanitizeUser" => (NoSecrets(res'.docs[1]) /\ users' = users)]_vars

\* C8 witness: a document carrying a password hash and both tokens was sanitized.
C8_Witness ==
  /\ res.op = "sanitizeUser"
  /\ users[res.target].password.kind = "hash"
  /\ users[res.target].verification.token # NoToken
  /\ users[res.target].resetPassword.token # NoToken

\* C9: a register request whose username collides with an existing user is
\* answered 400 "Username is taken" and adds no record, also when register
\* requests for one username interleave (no two records share a username).
C9_UsernameTaken ==
  [][(IsRegisterSave /\ \E i \in Live : users[i].username = res'.body.username)
       => /\ res'.status = 400 /\ res'.msg = "Username is taken"
          /\ users' = users
          /\ \A i, j \in Live : users[i].username = users[j].username => i = j]_vars

\* C10: with registration enabled, a register request whose password fails the
\* strength policy is answered 400 with the policy message and writes nothing.
C10_WeakPasswordRejected ==
  [][(IsRegisterStart /\ config.allowRegistration
        /\ ~isStrongPassword(res'.body.password))
       => /\ res'.status = 400 /\ res'.msg = "Invalid password"
          /\ UNCHANGED <<users, nextId, nextToken, inflight>>]_vars

\* A stored user carries the verification token tok with an expiry before now.
ExpiredVerification(tok) ==
  \E i \in Live : /\ users[i].verification.present
                   /\ users[i].verification.token = tok
                   /\ users[i].verification.expires.type = "Date"
                   /\ users[i].verification.expires.t < now

\* C11: verifyEmail with a token that matches a user whose verification expiry lies
\* in the past is answered 400 "Token has expired" and leaves the stored records,
\* the verified flag among them, unchanged.
C11_ExpiredTokenRejected ==
  [][(res'.op = "verifyEmail" /\ ExpiredVerification(res'.token))
       => /\ res'.status = 400 /\ res'.msg = "Token has expired"
          /\ users' = users]_vars

\* C11 witness: a user that is not verified presented its expired token and was
\* refused.
C11_Witness ==
  /\ res.op = "verifyEmail" /\ res.status = 400 /\ res.msg = "Token has expired"
  /\ ExpiredVerification(res.token)
  /\ \E i \in Live : users[i].verification.token = res.token /\ ~users[i].verified

\* The stored users whose reset token is tok.
ResetTokenHolders(tok) ==
  {i \in Live : users[i].resetPassword.present /\ users[i].resetPassword.token = tok}

\* C12: resetPassword with a strong password and a token that matches exactly one
\* user, whose expiry lies in the future, is answered 204 and leaves that user
\* with the hash of the new password, a cleared resetPassword field and
\* verified = true; no other user is modified.
C12_ResetPasswordSucceeds ==
  [][\A i \in Ids :
       (/\ res'.op = "resetPassword"
        /\ res'.body.password.kind = "clear"
        /\ res'.body.password.v \in passwordStrengthRe
        /\ res'.token # NoToken
        /\ ResetTokenHolders(res'.token) = {i}
        /\ users[i].resetPassword.expires.type = "Date"
        /\ users[i].resetPassword.expires.t > now)
       => /\ res'.status = 204
          /\ users'[i].password = [kind |-> "hash", v |-> res'.body.password.v]
          /\ users'[i].resetPassword.token = NoToken
          /\ users'[i].resetPassword.expires = NoDate
          /\ users'[i].verified
          /\ \A j \in Ids \ {i} : users'[j] = users[j]]_vars

\* C12 witness: a user other than the admin, with a verification mail still
\* unanswered, reset its password with its token.
C12_Witness ==
  /\ res.op = "resetPassword" /\ res.status = 204
  /\ res.target \in Live
  /\ users[res.target].password = [kind |-> "hash", v |-> res.body.password.v]
  /\ users[res.target].verified
  /\ users[res.target].role # ADMIN_ROLE_NAME
  /\ users[res.target].verification.present
  /\ users[res.target].verification.expires.type = "Date"

\* C13: once the bulk update of flushSubroles(parentRole, subroles) is applied,
\* every persisted user whose role is parentRole has exactly the given subroles
\* and is otherwise as before, and every user with another role is untouched.
C13_FlushSubrolesFrame ==
  [][res'.op = "flushSubroles"
       => \A i \in Ids :
            IF i \in Live /\ users[i].role = res'.msg
              THEN /\ users'[i].subroles = res'.body.subroles
                   /\ [users'[i] EXCEPT !.subroles = {}] = [users[i] EXCEPT !.subroles = {}]
              ELSE users'[i] = users[i]]_vars

\* C13 witness: a flush gave a user of the role subroles other than that role's
\* own, while a user of another role kept different ones.
C13_Witness ==
  /\ res.op = "flushSubroles"
  /\ \E i, j \in Live :
       /\ users[i].role = res.msg
       /\ users[i].subroles = res.body.subroles
       /\ users[i].subroles # determineSubroles(users[i].role)
       /\ users[j].role # res.msg
       /\ users[j].subroles # res.body.subroles

\* The operations that answer a request.
HandlerOps ==
  {"read", "list", "create", "update", "readList", "deleteUser", "adminUpdate",
   "readSelf", "register", "changePassword", "verifyEmail",
   "requestVerificationEmail", "requestChangePasswordEmail", "resetPassword"}

\* C14: every handler maps a failure of a collaborator it calls to a status-code
\* response: a request that ended after its handler called a collaborator (it
\* is not suspended at an await, and did not throw before the first call) has
\* been answered.
C14_FailuresMappedToStatus ==
  (res.op \in HandlerOps /\ res.msg \notin {"await", "TypeError"}) => res.status # 0

\* C15: after requestChangePasswordEmail answers 204 for a user, the token in the
\* URL of the password-change mail sent to that user is the user's freshly stored
\* resetPassword.token (so a resetPassword with the mailed token can succeed).
C15_ResetMailCarriesResetToken ==
  (res.op = "requestChangePasswordEmail" /\ res.status = 204)
    => /\ res.mail.to = users[res.target].email
       /\ res.mail.token = users[res.target].resetPassword.token

====
